---- MODULE Spec2Model ----
(***************************************************************************)
(* Finance-App.py: a SQLite record store (users, expenses, budget), the    *)
(* Streamlit handlers of main() that write to it, and the Dashboard        *)
(* aggregation / budget alert computation done with binary64 floats.       *)
(***************************************************************************)
EXTENDS Integers, Sequences, FiniteSets, TLC

VARIABLES users, expenses, budget, err, view, assigned

vars == <<users, expenses, budget, err, view, assigned>>

(***************************************************************************)
(* binary64 arithmetic.  SQLite REAL, Python float and the pandas float64  *)
(* columns are IEEE-754 doubles.  A double is a record                     *)
(*   [k, s, hi, lo, e]   k = "fin" | "inf" | "nan",  s = 1 for negative,   *)
(* of value (-1)^s * (hi * 2^28 + lo) * 2^e, the 53-bit significand split  *)
(* in two limbs so that every intermediate stays below 2^31.  Results are  *)
(* rounded to nearest, ties to even.  Exponents stay far from the          *)
(* subnormal and overflow ranges for the amounts used here.                *)
(***************************************************************************)
B28 == 2^28

FNaN == [k |-> "nan", s |-> 0, hi |-> 0, lo |-> 0, e |-> 0]

FInf(sg) == [k |-> "inf", s |-> sg, hi |-> 0, lo |-> 0, e |-> 0]

FZero(sg) == [k |-> "fin", s |-> sg, hi |-> 0, lo |-> 0, e |-> 0]

FIsZero(x) == x.k = "fin" /\ x.hi = 0 /\ x.lo = 0

\* a two-limb natural <<h, l>> = h * 2^28 + l
WLt(a, b) == a[1] < b[1] \/ (a[1] = b[1] /\ a[2] < b[2])

WAdd(a, b) ==
    LET l == a[2] + b[2]
    IN  <<a[1] + b[1] + (l \div B28), l % B28>>

WSub(a, b) ==
    LET l == a[2] - b[2]
    IN  IF l < 0 THEN <<a[1] - b[1] - 1, l + B28>> ELSE <<a[1] - b[1], l>>

\* a * 2^-d, the bits shifted out OR-ed into the lowest bit (sticky)
WShrSticky(a, d) ==
    IF d = 0 THEN a
    ELSE IF d >= 56 THEN <<0, IF a[1] = 0 /\ a[2] = 0 THEN 0 ELSE 1>>
    ELSE IF d < 28 THEN
        LET p  == 2^d
            l  == (a[2] \div p) + (a[1] % p) * 2^(28 - d)
            st == (a[2] % p) # 0
        IN  <<a[1] \div p, IF st /\ l % 2 = 0 THEN l + 1 ELSE l>>
    ELSE
        LET p  == 2^(d - 28)
            l  == a[1] \div p
            st == (a[1] % p) # 0 \/ a[2] # 0
        IN  <<0, IF st /\ l % 2 = 0 THEN l + 1 ELSE l>>

\* the significand with three extra low bits (guard, round, sticky): 56 bits
WExt(x) == <<x.hi * 8 + (x.lo \div 2^25), (x.lo % 2^25) * 8>>

\* w * 2^n for 0 < n < 28 and w below 2^(56 - n)
WShl(w, n) ==
    <<w[1] * 2^n + (w[2] \div 2^(28 - n)), (w[2] % 2^(28 - n)) * 2^n>>

\* one step of the normalisation: w shifted left by n when its top n bits
\* (of 56) are zero, with the exponent adjusted
WNormStep(we, n) ==
    IF we[1][1] < 2^(28 - n) THEN <<WShl(we[1], n), we[2] - n>> ELSE we

\* a nonzero w shifted left until bit 55 is set, with the exponent adjusted
WNormL(w, ex) ==
    LET s0 == IF w[1] = 0 THEN <<<<w[2], 0>>, ex - 28>> ELSE <<w, ex>>
    IN  WNormStep(WNormStep(WNormStep(WNormStep(WNormStep(s0, 16), 8), 4), 2), 1)

\* round the 56-bit w (of weight 2^ex) to a double of sign sg
FRound(sg, w, ex) ==
    LET r   == w[2] % 8
        q   == <<w[1] \div 8, (w[2] \div 8) + (w[1] % 8) * 2^25>>
        up  == r > 4 \/ (r = 4 /\ q[2] % 2 = 1)
        q1  == IF up THEN WAdd(q, <<0, 1>>) ELSE q
    IN  IF q1[1] >= 2^25
        THEN [k |-> "fin", s |-> sg, hi |-> 2^24, lo |-> 0, e |-> ex + 4]
        ELSE [k |-> "fin", s |-> sg, hi |-> q1[1], lo |-> q1[2], e |-> ex + 3]

FMagLt(x, y) ==
    x.e < y.e \/ (x.e = y.e /\ WLt(<<x.hi, x.lo>>, <<y.hi, y.lo>>))

\* x + y for finite nonzero x, y with |x| >= |y|
FAddOrdered(x, y) ==
    LET X  == WExt(x)
        Y  == WShrSticky(WExt(y), x.e - y.e)
        ex == x.e - 3
    IN  IF x.s = y.s
        THEN LET S == WAdd(X, Y)
             IN  IF S[1] >= B28
                 THEN FRound(x.s, WShrSticky(S, 1), ex + 1)
                 ELSE FRound(x.s, S, ex)
        ELSE LET S == WSub(X, Y)
             IN  IF S[1] = 0 /\ S[2] = 0
                 THEN FZero(0)
                 ELSE LET n == WNormL(S, ex)
                      IN  FRound(x.s, n[1], n[2])

FAdd(x, y) ==
    IF x.k = "nan" \/ y.k = "nan" THEN FNaN
    ELSE IF x.k = "inf"
         THEN IF y.k = "inf" /\ y.s # x.s THEN FNaN ELSE x
    ELSE IF y.k = "inf" THEN y
    ELSE IF FIsZero(x)
         THEN IF FIsZero(y) THEN FZero(IF x.s = 1 /\ y.s = 1 THEN 1 ELSE 0) ELSE y
    ELSE IF FIsZero(y) THEN x
    ELSE IF FMagLt(x, y) THEN FAddOrdered(y, x) ELSE FAddOrdered(x, y)

\* Long division in base 2^11 on naturals of three 18-bit limbs <<n2, n1, n0>>.
B18 == 2^18

\* the limbs of the significand hi * 2^28 + lo
TLimbs(hi, lo) == <<hi \div 2^8, (lo \div B18) + (hi % 2^8) * 2^10, lo % B18>>

\* carries propagated, for limbs t2, t1, t0 of any sign and a total >= 0
TCarry(t2, t1, t0) ==
    LET u1 == t1 + (t0 \div B18)
    IN  <<t2 + (u1 \div B18), u1 % B18, t0 % B18>>

TLt(a, b) ==
    \/ a[1] < b[1]
    \/ a[1] = b[1] /\ a[2] < b[2]
    \/ a[1] = b[1] /\ a[2] = b[2] /\ a[3] < b[3]

\* for r < d and d of 53 bits: <<floor(r * 2^11 / d), the remainder>>.  The
\* digit estimated from the top limbs is the true one or one less.
TDivStep(r, d) ==
    LET qe  == (r[1] * 2^11) \div (d[1] + 1)
        rem == TCarry(r[1] * 2^11 - qe * d[1], r[2] * 2^11 - qe * d[2],
                      r[3] * 2^11 - qe * d[3])
    IN  IF TLt(rem, d) THEN <<qe, rem>>
        ELSE <<qe + 1, TCarry(rem[1] - d[1], rem[2] - d[2], rem[3] - d[3])>>

\* x / y for finite nonzero x, y: 56 quotient bits, the last one sticky
FDivFinite(x, y) ==
    LET sg   == IF x.s = y.s THEN 0 ELSE 1
        a    == TLimbs(x.hi, x.lo)
        b    == TLimbs(y.hi, y.lo)
        less == TLt(a, b)
        num  == IF less THEN TCarry(2 * a[1], 2 * a[2], 2 * a[3]) ELSE a
        r0   == TCarry(num[1] - b[1], num[2] - b[2], num[3] - b[3])
        s1   == TDivStep(r0, b)
        s2   == TDivStep(s1[2], b)
        s3   == TDivStep(s2[2], b)
        s4   == TDivStep(s3[2], b)
        s5   == TDivStep(s4[2], b)
        ql   == (s3[1] % 2^6) * 2^22 + s4[1] * 2^11 + s5[1]
        q    == <<2^27 + s1[1] * 2^16 + s2[1] * 2^5 + (s3[1] \div 2^6),
                  IF s5[2] # <<0, 0, 0>> /\ ql % 2 = 0 THEN ql + 1 ELSE ql>>
    IN  FRound(sg, q, x.e - y.e - 55 - (IF less THEN 1 ELSE 0))

FDiv(x, y) ==
    LET sg == IF x.s = y.s THEN 0 ELSE 1
    IN  IF x.k = "nan" \/ y.k = "nan" THEN FNaN
        ELSE IF x.k = "inf" THEN (IF y.k = "inf" THEN FNaN ELSE FInf(sg))
        ELSE IF y.k = "inf" THEN FZero(sg)
        ELSE IF FIsZero(y) THEN (IF FIsZero(x) THEN FNaN ELSE FInf(sg))
        ELSE IF FIsZero(x) THEN FZero(sg)
        ELSE FDivFinite(x, y)

\* x > y as Python and numpy compare doubles (False when either is NaN)
FGt(x, y) ==
    IF x.k = "nan" \/ y.k = "nan" THEN FALSE
    ELSE IF FIsZero(x) /\ FIsZero(y) THEN FALSE
    ELSE IF x.s # y.s THEN x.s = 0
    ELSE IF x.k = "inf" \/ y.k = "inf"
         THEN (IF x.s = 0 THEN x.k = "inf" /\ y.k # "inf"
                          ELSE y.k = "inf" /\ x.k # "inf")
    ELSE IF FIsZero(x) THEN y.s = 1
    ELSE IF FIsZero(y) THEN x.s = 0
    ELSE IF x.s = 0 THEN FMagLt(y, x) ELSE FMagLt(x, y)

\* x == y as Python compares doubles
FEq(x, y) ==
    /\ x.k # "nan" /\ y.k # "nan"
    /\ \/ FIsZero(x) /\ FIsZero(y)
       \/ x = y

\* the double of a natural number below 2^28
FromNat(n) ==
    IF n = 0 THEN FZero(0)
    ELSE LET w == WNormL(<<0, n>>, 0)
         IN  FRound(0, w[1], w[2])


\* the doubles the model's inputs and the code's literals denote
F1 == [k |-> "fin", s |-> 0, hi |-> 16777216, lo |-> 0, e |-> -52]

F08 == [k |-> "fin", s |-> 0, hi |-> 26843545, lo |-> 161061274, e |-> -53]

MinValue == [k |-> "fin", s |-> 0, hi |-> 21474836, lo |-> 128849019, e |-> -59]

A010 == [k |-> "fin", s |-> 0, hi |-> 26843545, lo |-> 161061274, e |-> -56]

A040 == [k |-> "fin", s |-> 0, hi |-> 26843545, lo |-> 161061274, e |-> -54]

AM010 == [k |-> "fin", s |-> 1, hi |-> 26843545, lo |-> 161061274, e |-> -56]

L050 == [k |-> "fin", s |-> 0, hi |-> 16777216, lo |-> 0, e |-> -53]

L045 == [k |-> "fin", s |-> 0, hi |-> 30198988, lo |-> 214748365, e |-> -54]

(***************************************************************************)
(* The record store.  users is the users table (a set of usernames),       *)
(* expenses the expenses table (rowid -> row), budget the budget table (a  *)
(* set of rows).  err is how the last operation ended, view what the last  *)
(* run of main() rendered on the Dashboard.  assigned is a history         *)
(* variable: the rowids the expenses table has handed out so far.          *)
(***************************************************************************)
MaxId == 3

Max(S) == CHOOSE x \in S : \A y \in S : y <= x

Min(S) == CHOOSE x \in S : \A y \in S : x <= y

EmptyFn == [x \in {} |-> x]

NoView ==
    [kind |-> "none", username |-> "", month |-> <<0, 0>>,
     total |-> FZero(0), daily_avg |-> FZero(0), budgeted |-> FALSE,
     spent_by_cat |-> EmptyFn, alerts |-> EmptyFn]

\* init_db on a new database file: three empty tables
Init ==
    /\ users = {}
    /\ expenses = EmptyFn
    /\ budget = {}
    /\ err = "none"
    /\ view = NoView
    /\ assigned = {}

\* INSERT OR IGNORE INTO users
login_user(U, username) == U \cup {username}

\* the rowid SQLite gives a new row of a table with id INTEGER PRIMARY KEY
\* (no AUTOINCREMENT): one more than the largest rowid in the table
NextRowid(E) == IF DOMAIN E = {} THEN 1 ELSE Max(DOMAIN E) + 1

add_expense(E, username, date, category, amount, description) ==
    LET id == NextRowid(E)
    IN  [i \in DOMAIN E \cup {id} |->
            IF i = id
            THEN [username |-> username, date |-> date, category |-> category,
                  amount |-> amount, description |-> description]
            ELSE E[i]]

\* SELECT * FROM expenses WHERE username = ?  (rows come in rowid order)
get_expenses(E, username) ==
    [i \in {j \in DOMAIN E : E[j].username = username} |-> E[i]]

\* (mutant) DELETE FROM expenses WHERE id <= ?
delete_expense_le(E, expense_id) ==
    [i \in {j \in DOMAIN E : j > expense_id} |-> E[i]]

\* DELETE FROM expenses WHERE id = ?
delete_expense(E, expense_id) ==
    [i \in DOMAIN E \ {expense_id} |-> E[i]]

\* (mutant) a plain INSERT into a budget table that has no primary key
set_budget_insert(Bt, username, category, limit) ==
    Bt \cup {[username |-> username, category |-> category,
              monthly_limit |-> limit]}

\* INSERT OR REPLACE INTO budget: the row in conflict on the primary key
\* (username, category) is deleted, then the new row inserted
set_budget(Bt, username, category, limit) ==
    {r \in Bt : ~(r.username = username /\ r.category = category)}
        \cup {[username |-> username, category |-> category,
               monthly_limit |-> limit]}

\* SELECT * FROM budget WHERE username = ?
get_budget(Bt, username) == {r \in Bt : r.username = username}

\* st.number_input(min_value=0.01): the widget yields no value below 0.01
NumberInputOk(x) == x.k = "fin" /\ ~FGt(MinValue, x)


(***************************************************************************)
(* The Dashboard of main(): month-to-date total, daily average and budget  *)
(* alerts, computed by pandas on float64 columns.  A DataFrame is the      *)
(* function rowid -> row it holds; its rows are visited in rowid order.    *)
(***************************************************************************)
\* a date 'YYYY-MM-DD' is <<year, month, day>>; strftime('%Y-%m') of it
YearMonth(date) == <<date[1], date[2]>>

DateLe(a, b) ==
    \/ a[1] < b[1]
    \/ a[1] = b[1] /\ a[2] < b[2]
    \/ a[1] = b[1] /\ a[2] = b[2] /\ a[3] <= b[3]

\* Series.sum() of the amount column: the doubles added in row order
RECURSIVE FSumRows(_, _, _)
FSumRows(acc, df, ids) ==
    IF ids = {} THEN acc
    ELSE LET i == Min(ids)
         IN  FSumRows(FAdd(acc, df[i].amount), df, ids \ {i})

SeriesSum(df) == FSumRows(FZero(0), df, DOMAIN df)

\* expenses[expenses['date'].dt.strftime('%Y-%m') == this_month]
month_expenses(df, this_month) ==
    [i \in {j \in DOMAIN df : YearMonth(df[j].date) = this_month} |-> df[i]]

\* month_expenses.groupby('category')['amount'].sum()
spent_by_cat(me) ==
    [c \in {me[i].category : i \in DOMAIN me} |->
        SeriesSum([i \in {j \in DOMAIN me : me[j].category = c} |-> me[i]])]

\* month_expenses.groupby(date)['amount'].sum()
spent_by_day(me) ==
    [d \in {me[i].date : i \in DOMAIN me} |->
        SeriesSum([i \in {j \in DOMAIN me : me[j].date = d} |-> me[i]])]

\* the sum of a Series indexed by (sorted) dates
RECURSIVE FSumDays(_, _, _)
FSumDays(acc, f, days) ==
    IF days = {} THEN acc
    ELSE LET d == CHOOSE x \in days : \A y \in days : DateLe(x, y)
         IN  FSumDays(FAdd(acc, f[d]), f, days \ {d})

\* Series.mean(): the sum over the count, NaN for an empty Series
SeriesMean(f) ==
    IF DOMAIN f = {} THEN FNaN
    ELSE FDiv(FSumDays(FZero(0), f, DOMAIN f), FromNat(Cardinality(DOMAIN f)))

\* .fillna(0)
Fillna0(x) == IF x.k = "nan" THEN FZero(0) ELSE x

\* one row of pd.merge(budget_df, spent_by_cat, on='category', how='left')
\* .fillna(0), and its status = amount / monthly_limit
MergedAmount(b, by_cat) ==
    Fillna0(IF b.category \in DOMAIN by_cat THEN by_cat[b.category] ELSE FNaN)

Status(b, by_cat) == FDiv(MergedAmount(b, by_cat), Fillna0(b.monthly_limit))

\* (mutant) the over-budget test written status >= 1
Tier_ge(status) ==
    IF FGt(status, F1) \/ FEq(status, F1) THEN "OVER"
    ELSE IF FGt(status, F08) THEN "WARNING"
    ELSE "OK"

\* the alert of a merged row: st.warning (over budget), st.info (almost at
\* the limit) or no message
Tier(status) ==
    IF FGt(status, F1) THEN "OVER"
    ELSE IF FGt(status, F08) THEN "WARNING"
    ELSE "OK"

\* what the Dashboard branch renders for username when the clock says now
DashboardView(E, Bt, username, now) ==
    LET df == get_expenses(E, username)
    IN  IF DOMAIN df = {}
        THEN [NoView EXCEPT !.kind = "info", !.username = username, !.month = now]
        ELSE LET me        == month_expenses(df, now)
                 budget_df == get_budget(Bt, username)
                 by_cat    == spent_by_cat(me)
             IN  [kind |-> "metrics", username |-> username, month |-> now,
                  total |-> SeriesSum(me),
                  daily_avg |-> SeriesMean(spent_by_day(me)),
                  budgeted |-> budget_df # {},
                  spent_by_cat |-> IF budget_df # {} THEN by_cat ELSE EmptyFn,
                  alerts |-> [b \in budget_df |->
                                [amount |-> MergedAmount(b, by_cat),
                                 status |-> Status(b, by_cat),
                                 tier   |-> Tier(Status(b, by_cat))]]]

(***************************************************************************)
(* Operations.  Every run of main() first calls init_db and                *)
(* login_user(username), then the branch of the chosen menu.               *)
(***************************************************************************)
\* a run of main() on a menu that writes nothing more (Reports)
LoginUser(username) ==
    /\ users' = login_user(users, username)
    /\ err' = "none"
    /\ view' = NoView
    /\ UNCHANGED <<expenses, budget, assigned>>

\* menu "Add Expense" with the button pressed; ok = FALSE when the INSERT of
\* add_expense raises (sqlite3 error), which leaves the table as it was
AddExpenseForm(username, date, category, amount, ok) ==
    /\ NumberInputOk(amount)
    /\ NextRowid(expenses) <= MaxId
    /\ users' = login_user(users, username)
    /\ expenses' = IF ok THEN add_expense(expenses, username, date, category, amount, "")
                         ELSE expenses
    /\ err' = IF ok THEN "none" ELSE "StorageError"
    /\ view' = NoView
    /\ assigned' = assigned \cup (DOMAIN expenses' \ DOMAIN expenses)
    /\ UNCHANGED budget

\* delete_expense(expense_id), called while username is the session's user
DeleteExpense(username, expense_id) ==
    /\ expenses' = delete_expense(expenses, expense_id)
    /\ err' = "none"
    /\ view' = NoView
    /\ UNCHANGED <<users, budget, assigned>>

\* set_budget(username, category, limit)
SetBudget(username, category, limit) ==
    /\ budget' = set_budget(budget, username, category, limit)
    /\ err' = "none"
    /\ view' = NoView
    /\ UNCHANGED <<users, expenses, assigned>>

\* menu "Budget" with the button pressed
BudgetForm(username, category, limit) ==
    /\ NumberInputOk(limit)
    /\ users' = login_user(users, username)
    /\ budget' = set_budget(budget, username, category, limit)
    /\ err' = "none"
    /\ view' = NoView
    /\ UNCHANGED <<expenses, assigned>>

\* (mutant) the rows added in one transaction, rolled back when a row fails
AddRows_atomic(E, username, rows, k) ==
    IF k < Len(rows) THEN E
    ELSE LET first == NextRowid(E)
         IN  [i \in DOMAIN E \cup (first..(first + k - 1)) |->
                 IF i \in DOMAIN E THEN E[i]
                 ELSE [username |-> username, date |-> rows[i - first + 1].date,
                       category |-> rows[i - first + 1].category,
                       amount |-> rows[i - first + 1].amount,
                       description |-> rows[i - first + 1].description]]

\* the loop of the Import branch over the first k rows of the file
RECURSIVE AddRows(_, _, _, _)
AddRows(E, username, rows, k) ==
    IF k = 0 THEN E
    ELSE LET E1 == AddRows(E, username, rows, k - 1)
         IN  add_expense(E1, username, rows[k].date, rows[k].category,
                         rows[k].amount, rows[k].description)

\* menu "Import/Export" with a file uploaded: add_expense row by row; the
\* add of row k + 1 raises when k < Len(rows), which ends the loop
ImportCSV(username, rows, k) ==
    /\ k \in 0..Len(rows)
    /\ NextRowid(expenses) + k - 1 <= MaxId
    /\ users' = login_user(users, username)
    /\ expenses' = AddRows(expenses, username, rows, k)
    /\ err' = IF k = Len(rows) THEN "none" ELSE "StorageError"
    /\ view' = NoView
    /\ assigned' = assigned \cup (DOMAIN expenses' \ DOMAIN expenses)
    /\ UNCHANGED budget

\* menu "Dashboard"
Dashboard(username, now) ==
    /\ users' = login_user(users, username)
    /\ view' = DashboardView(expenses, budget, username, now)
    /\ err' = "none"
    /\ UNCHANGED <<expenses, budget, assigned>>

(***************************************************************************)
(* Inputs.                                                                 *)
(***************************************************************************)
Users == {"alice", "bob"}

\* two of the five categories of the forms' selectbox
Categories == {"Food", "Transport"}

May1 == <<2025, 5, 1>>

May2 == <<2025, 5, 2>>

Apr30 == <<2025, 4, 30>>

Months == {<<2025, 5>>}

\* a row of an uploaded file: pd.read_csv checks no value
CsvRow(date, category, amount) ==
    [date |-> date, category |-> category, amount |-> amount, description |-> ""]

\* the uploaded files: one or two rows, a negative amount among them
CsvFiles ==
    {<<CsvRow(May1, "Food", A010)>>,
     <<CsvRow(May1, "Food", AM010)>>,
     <<CsvRow(May1, "Food", AM010), CsvRow(May1, "Food", A010)>>}

\* the limits set_budget is called with: one the Budget form can yield, and 0
BudgetLimits == {L050, FZero(0)}

\* the categories u sets budgets for: three (username, category) pairs in all
BudgetCategories(u) == IF u = "alice" THEN Categories ELSE {"Food"}

\* what a session of user u can do to the store
UserStep(u) ==
    \/ LoginUser(u)
    \/ \E ok \in BOOLEAN : AddExpenseForm(u, May1, "Food", A010, ok)
    \/ \E id \in 1..MaxId : DeleteExpense(u, id)
    \/ \E c \in BudgetCategories(u), l \in BudgetLimits : SetBudget(u, c, l)
    \/ BudgetForm(u, "Food", L050)
    \/ \E rows \in CsvFiles, k \in 0..2 : ImportCSV(u, rows, k)

\* the store operations, for two users
Next == \E u \in Users : UserStep(u)

Spec == Init /\ [][Next]_vars

\* alice's Dashboard over the expenses and budgets the forms have stored
NextDash ==
    \/ LoginUser("alice")
    \/ \E d \in {May1, Apr30}, c \in Categories, a \in {A010, A040} :
            AddExpenseForm("alice", d, c, a, TRUE)
    \/ AddExpenseForm("alice", May2, "Food", A010, TRUE)
    \/ AddExpenseForm("bob", May1, "Food", A040, TRUE)
    \/ \E c \in Categories, l \in {L050, L045} : BudgetForm("alice", c, l)
    \/ \E m \in Months : Dashboard("alice", m)

SpecDash == Init /\ [][NextDash]_vars


(***************************************************************************)
(* Claims.                                                                 *)
(***************************************************************************)
SameKey(r, username, category) ==
    r.username = username /\ r.category = category

\* C1: after set_budget (called directly or by the Budget form) the budget
\* table holds at most one row per (username, category); the row of the pair
\* written carries the limit just given, and the rows of all other pairs are
\* the ones that were there before.
C1_SetBudgetUpserts ==
    [][/\ \A r1, r2 \in budget' :
            SameKey(r1, r2.username, r2.category) => r1 = r2
       /\ \A u \in Users, c \in Categories, l \in BudgetLimits :
            (SetBudget(u, c, l) \/ BudgetForm(u, c, l)) =>
                /\ {r \in budget' : SameKey(r, u, c)}
                      = {[username |-> u, category |-> c, monthly_limit |-> l]}
                /\ {r \in budget' : ~SameKey(r, u, c)}
                      = {r \in budget : ~SameKey(r, u, c)}]_vars

\* two pairs hold different limits, one of them written after the other
C1_Witness ==
    \E r1, r2 \in budget :
        /\ ~SameKey(r1, r2.username, r2.category)
        /\ r1.monthly_limit # r2.monthly_limit

\* the rowids of username's expenses of month in category
MonthCatIds(username, month, category) ==
    {i \in DOMAIN expenses :
        /\ expenses[i].username = username
        /\ YearMonth(expenses[i].date) = month
        /\ expenses[i].category = category}

MonthToDateSpend(username, month, category) ==
    FSumRows(FZero(0), expenses, MonthCatIds(username, month, category))

\* the tier the Dashboard shows for budget row b: its message, or none (OK)
ShownTier(b) ==
    IF b \in DOMAIN view.alerts THEN view.alerts[b].tier ELSE "OK"

\* C2: on a rendered Dashboard, each budget row of the user is OVER when
\* spent / limit > 1.0 (spent > limit), WARNING when 0.8 < spent / limit
\* <= 1.0, OK otherwise; spent = limit (ratio exactly 1.0) is WARNING, and a
\* budget with no expense of its category in the month has spent 0 and is OK.
C2_TierThresholds ==
    view.kind # "none" =>
        \A b \in get_budget(budget, view.username) :
            LET spent == MonthToDateSpend(view.username, view.month, b.category)
                ratio == FDiv(spent, b.monthly_limit)
                tier  == ShownTier(b)
            IN  /\ FGt(spent, b.monthly_limit) => tier = "OVER"
                /\ FGt(ratio, F08) /\ ~FGt(spent, b.monthly_limit)
                        => tier = "WARNING"
                /\ ~FGt(ratio, F08) => tier = "OK"
                /\ FEq(spent, b.monthly_limit) => tier = "WARNING"
                /\ MonthCatIds(view.username, view.month, b.category) = {} =>
                        /\ tier = "OK"
                        /\ b \in DOMAIN view.alerts
                                => FIsZero(view.alerts[b].amount)

\* a Dashboard with a budget spent exactly to its limit, shown as WARNING
C2_Witness ==
    /\ view.kind = "metrics"
    /\ \E b \in DOMAIN view.alerts :
            /\ view.alerts[b].tier = "WARNING"
            /\ FEq(MonthToDateSpend(view.username, view.month, b.category),
                   b.monthly_limit)

\* the categories in the order groupby sorts them
SortedCategories == <<"Food", "Transport">>

\* sum(spend_by_category.values())
RECURSIVE FSumValues(_, _, _)
FSumValues(acc, f, i) ==
    IF i > Len(SortedCategories) THEN acc
    ELSE FSumValues(IF SortedCategories[i] \in DOMAIN f
                    THEN FAdd(acc, f[SortedCategories[i]]) ELSE acc, f, i + 1)

\* C3: on a rendered Dashboard with budgets, the per-category sums of the
\* month add up to exactly the month's total, and the categories summed are
\* exactly those with an expense in the month.
C3_CategorySumsEqualTotal ==
    (view.kind = "metrics" /\ view.budgeted) =>
        /\ FEq(FSumValues(FZero(0), view.spent_by_cat, 1), view.total)
        /\ DOMAIN view.spent_by_cat =
              {c \in Categories :
                  MonthCatIds(view.username, view.month, c) # {}}

\* C4: when no expense of the user falls in the month of the Dashboard, the
\* total is 0 and the daily average is not rendered as a number (a double,
\* NaN included) but as an explicit no-data outcome.
C4_NoDataIsExplicit ==
    (/\ view.kind # "none"
     /\ \A c \in Categories :
            MonthCatIds(view.username, view.month, c) = {}) =>
        /\ FIsZero(view.total)
        /\ ~(view.kind = "metrics"
                /\ view.daily_avg.k \in {"fin", "inf", "nan"})

\* C5: delete_expense ends without an error and leaves users and budget as
\* they were; with an absent id the expenses table is unchanged, with a
\* present id exactly that row is gone and every other row is as before.
C5_DeleteFrame ==
    [][\A u \in Users, id \in 1..MaxId :
         DeleteExpense(u, id) =>
            /\ err' = "none"
            /\ users' = users /\ budget' = budget
            /\ id \notin DOMAIN expenses => expenses' = expenses
            /\ id \in DOMAIN expenses =>
                  /\ DOMAIN expenses' = DOMAIN expenses \ {id}
                  /\ \A j \in DOMAIN expenses' : expenses'[j] = expenses[j]]_vars

\* a row was deleted below a row that stays, beside stored users and budgets
C5_Witness ==
    /\ \E i \in DOMAIN expenses : i > 1 /\ (i - 1) \notin DOMAIN expenses
    /\ users # {}
    /\ budget # {}

\* C6: every rowid the expenses table assigns is strictly greater than every
\* rowid it assigned before (so the rowid of a deleted row is never reused).
C6_IdsNeverReused ==
    [][\A i \in DOMAIN expenses' \ DOMAIN expenses :
         \A j \in assigned : i > j]_vars

\* C7: every stored expense has amount > 0.
C7_AmountsPositive ==
    \A i \in DOMAIN expenses : FGt(expenses[i].amount, FZero(0))

\* C8: set_budget with a limit <= 0 ends in a ValidationError and changes
\* nothing, and every stored monthly_limit is > 0.
C8_NonPositiveLimitRejected ==
    [][/\ \A u \in Users, c \in Categories, l \in BudgetLimits :
            (SetBudget(u, c, l) /\ ~FGt(l, FZero(0))) =>
                /\ err' = "ValidationError"
                /\ UNCHANGED <<users, expenses, budget>>
       /\ \A r \in budget' : FGt(r.monthly_limit, FZero(0))]_vars

\* C9: a step of user a's session changes neither get_expenses(b) nor
\* get_budget(b) of any other user b.
C9_UsersIndependent ==
    [][\A a \in Users :
         UserStep(a) =>
            \A b \in Users \ {a} :
                /\ get_expenses(expenses', b) = get_expenses(expenses, b)
                /\ get_budget(budget', b) = get_budget(budget, b)]_vars

\* C10: an import whose add of row k + 1 fails ends in that error with rows
\* 1..k stored, in file order, under the next k fresh rowids, and with no
\* later row stored; the rows already in the table (an earlier, failed run of
\* the same import among them) stay as they are.
C10_ImportIsPartial ==
    [][\A u \in Users, rows \in CsvFiles, k \in 0..2 :
         ImportCSV(u, rows, k) =>
            LET first == NextRowid(expenses)
            IN  /\ DOMAIN expenses' = DOMAIN expenses \cup (first..(first + k - 1))
                /\ \A i \in DOMAIN expenses : expenses'[i] = expenses[i]
                /\ \A j \in 1..k :
                      expenses'[first + j - 1] =
                          [username |-> u, date |-> rows[j].date,
                           category |-> rows[j].category,
                           amount |-> rows[j].amount,
                           description |-> rows[j].description]
                /\ (k < Len(rows)) <=> (err' = "StorageError")]_vars

\* after a failed import: a row only an import can store (its amount is
\* below the forms' minimum) is stored twice, under two rowids
C10_Witness ==
    /\ err = "StorageError"
    /\ \E i, j \in DOMAIN expenses :
            /\ i # j
            /\ expenses[i] = expenses[j]
            /\ ~NumberInputOk(expenses[i].amount)

====
